---- MODULE Spec2Model ----
(***************************************************************************)
(* Income tax tracker (src/src/App.jsx): classification of bank alert      *)
(* texts, extraction of the amount, the transaction ledger with its        *)
(* persisted copy, and the progressive tax computation.                    *)
(*                                                                         *)
(* Numbers.  A JavaScript number is modelled as a record                   *)
(*   [k |-> "fin", n, f]   the real  n + f/10000  (f in 0..9999),          *)
(*   [k |-> "inf"], [k |-> "-inf"], [k |-> "nan"]  the IEEE specials,      *)
(*   [k |-> "null"]        the JSON null a number may be replaced by.      *)
(* Finite arithmetic is exact (spec.md 4.3: "non-negative real             *)
(* arithmetic"); binary rounding of doubles is not modelled.  Products     *)
(* amount * rate are exact for amounts with at most two decimals.          *)
(***************************************************************************)
EXTENDS Integers, Sequences, FiniteSets, TLC

\* ------------------------------------------------------------------ bounds
\* Naira offsets around each bracket limit that the tax inputs cover.
ProbeSpread == 1
\* Transaction ids (crypto.randomUUID results) that can be handed out.
MaxIds == 2
\* Image uploads that can be in progress at the same time.
MaxUploads == 2

\* -------------------------------------------------------------------- text
\* A text is a string; Char(s, i) is its i-th character as a string.
Char(s, i) == SubSeq(s, i, i)

Digits == {"0", "1", "2", "3", "4", "5", "6", "7", "8", "9"}
LowerLetters == {"a", "b", "c", "d", "e", "f", "g", "h", "i", "j", "k", "l", "m",
                 "n", "o", "p", "q", "r", "s", "t", "u", "v", "w", "x", "y", "z"}
UpperLetters == {"A", "B", "C", "D", "E", "F", "G", "H", "I", "J", "K", "L", "M",
                 "N", "O", "P", "Q", "R", "S", "T", "U", "V", "W", "X", "Y", "Z"}
UpperOrder == "ABCDEFGHIJKLMNOPQRSTUVWXYZ"
LowerOrder == "abcdefghijklmnopqrstuvwxyz"

\* \s, \w and the line terminators that "." excludes
WhiteSpace == {" ", "\t", "\n", "\r"}
WordChars == Digits \cup LowerLetters \cup UpperLetters \cup {"_"}
LineTerminators == {"\n", "\r"}

LowerChar(c) ==
    IF c \in UpperLetters
    THEN Char(LowerOrder, CHOOSE i \in 1..26 : Char(UpperOrder, i) = c)
    ELSE c

\* String.prototype.toLowerCase
\* (characters lo..hi, by halves so that long texts stay shallow)
RECURSIVE toLowerCaseRange(_, _, _)
toLowerCaseRange(s, lo, hi) ==
    IF lo > hi THEN ""
    ELSE IF lo = hi THEN LowerChar(Char(s, lo))
    ELSE LET mid == (lo + hi) \div 2
         IN  toLowerCaseRange(s, lo, mid) \o toLowerCaseRange(s, mid + 1, hi)

toLowerCase(s) == toLowerCaseRange(s, 1, Len(s))

\* String.prototype.trim
trim(s) ==
    LET keep == {i \in 1..Len(s) : Char(s, i) \notin WhiteSpace}
    IN  IF keep = {} THEN ""
        ELSE SubSeq(s, CHOOSE i \in keep : \A j \in keep : i <= j,
                       CHOOSE i \in keep : \A j \in keep : j <= i)

\* String.prototype.includes
includes(s, keyword) ==
    \E i \in 1..(Len(s) - Len(keyword) + 1) : SubSeq(s, i, i + Len(keyword) - 1) = keyword

\* ----------------------------------------------------- regular expressions
\* A compiled pattern is a sequence of tokens [t, c, q]:
\*   t = "wb"  the assertion \b            t = "chr" the character c
\*   t = "any" the dot                     t = "ws"  the class \s
\*   t = "cws" the class [:\s]
\* q is the quantifier "1", "+" or "*".  All patterns carry the i flag.
Tok(t, c, q) == [t |-> t, c |-> c, q |-> q]

WB == << Tok("wb", "", "1") >>
SpacePlus == << Tok("ws", "", "+") >>
ColonSpacePlus == << Tok("cws", "", "+") >>
Lit(str) == [i \in 1..Len(str) |-> Tok("chr", Char(str, i), "1")]

\* does the token accept the character (case-insensitively)
Accepts(tok, ch) ==
    CASE tok.t = "chr" -> LowerChar(ch) = LowerChar(tok.c)
      [] tok.t = "any" -> ch \notin LineTerminators
      [] tok.t = "ws"  -> ch \in WhiteSpace
      [] tok.t = "cws" -> ch \in WhiteSpace \cup {":"}
      [] OTHER -> FALSE

\* \b holds at position p (p characters consumed)
AtWordBoundary(text, p) ==
    LET before == p >= 1 /\ Char(text, p) \in WordChars
        after == p < Len(text) /\ Char(text, p + 1) \in WordChars
    IN  before # after

\* the positions reachable from a position of S by one token
StepToken(tok, text, S) ==
    IF tok.t = "wb" THEN {p \in S : AtWordBoundary(text, p)}
    ELSE LET run(p, r) == \A j \in (p + 1)..r : Accepts(tok, Char(text, j))
         IN  CASE tok.q = "1" -> {p + 1 : p \in {x \in S : x < Len(text) /\ Accepts(tok, Char(text, x + 1))}}
               [] tok.q = "+" -> {r \in 1..Len(text) : \E p \in S : p < r /\ run(p, r)}
               [] tok.q = "*" -> {r \in 0..Len(text) : \E p \in S : p <= r /\ run(p, r)}

RECURSIVE RunTokens(_, _, _, _)
RunTokens(toks, i, text, S) ==
    IF i > Len(toks) \/ S = {} THEN S
    ELSE RunTokens(toks, i + 1, text, StepToken(toks[i], text, S))

\* RegExp.prototype.test: the pattern matches somewhere in the text
RegExpTest(toks, text) == RunTokens(toks, 1, text, 0..Len(text)) # {}

\* The characters of a pattern source that are syntax.  The sources handled
\* are those over literals and . ( ) + * ; any other syntax character makes
\* the result "unsupported" and no input of the model contains one.
OtherSyntaxChars == {"[", "]", "{", "}", "?", "|", "^", "$", "\\"}

\* new RegExp(prefix + source + ...): the tokens of the interpolated source,
\* scanned from character i on.  last is what precedes: "quant" (the prefix
\* ends in a quantifier), "atom", "open" or "close".  st is "ok",
\* "SyntaxError" or "unsupported".
RECURSIVE compileSource(_, _, _, _, _)
compileSource(src, i, depth, last, toks) ==
    IF i > Len(src)
    THEN [st |-> IF depth > 0 THEN "SyntaxError" ELSE "ok", toks |-> toks]
    ELSE LET c == Char(src, i)
         IN  CASE c \in OtherSyntaxChars -> [st |-> "unsupported", toks |-> toks]
               [] c = "(" -> compileSource(src, i + 1, depth + 1, "open", toks)
               [] c = ")" -> IF depth = 0 THEN [st |-> "SyntaxError", toks |-> toks]
                             ELSE compileSource(src, i + 1, depth - 1, "close", toks)
               [] c \in {"+", "*"} ->
                    IF last \in {"quant", "open"} THEN [st |-> "SyntaxError", toks |-> toks]
                    ELSE IF last = "close" THEN [st |-> "unsupported", toks |-> toks]
                    ELSE compileSource(src, i + 1, depth, "quant",
                             [toks EXCEPT ![Len(toks)].q = c])
               [] c = "." -> compileSource(src, i + 1, depth, "atom", Append(toks, Tok("any", "", "1")))
               [] OTHER -> compileSource(src, i + 1, depth, "atom", Append(toks, Tok("chr", c, "1")))

\* ----------------------------------------------------------------- numbers
Frac == 100 * 100

Fin(n, f) == [k |-> "fin", n |-> n, f |-> f]
Zero == Fin(0, 0)
Infinity == [k |-> "inf", n |-> 0, f |-> 0]
NegInfinity == [k |-> "-inf", n |-> 0, f |-> 0]
NaN == [k |-> "nan", n |-> 0, f |-> 0]
Null == [k |-> "null", n |-> 0, f |-> 0]

\* ToNumber: null coerces to +0 in arithmetic and comparison
ToNumber(x) == IF x.k = "null" THEN Zero ELSE x

\* a normalised finite number from a naira part and any count of 1/10000
Norm(n, f) == Fin(n + (f \div Frac), f % Frac)

\* IEEE sign of a special, 0 for finite
Sgn(x) == IF x.k = "inf" THEN 1 ELSE IF x.k = "-inf" THEN -1 ELSE 0

\* a + b
NumAdd(a0, b0) ==
    LET a == ToNumber(a0)
        b == ToNumber(b0)
    IN  IF a.k = "nan" \/ b.k = "nan" THEN NaN
        ELSE IF a.k = "fin" /\ b.k = "fin" THEN Norm(a.n + b.n, a.f + b.f)
        ELSE IF a.k = "fin" THEN b
        ELSE IF b.k = "fin" THEN a
        ELSE IF a.k = b.k THEN a
        ELSE NaN

Neg(a) ==
    IF a.k = "fin" THEN Norm(0 - a.n, 0 - a.f)
    ELSE IF a.k = "inf" THEN NegInfinity
    ELSE IF a.k = "-inf" THEN Infinity
    ELSE a

\* a - b
NumSub(a0, b0) == NumAdd(a0, Neg(ToNumber(b0)))

\* a <= b  (false as soon as one side is NaN)
NumLe(a0, b0) ==
    LET a == ToNumber(a0)
        b == ToNumber(b0)
    IN  IF a.k = "nan" \/ b.k = "nan" THEN FALSE
        ELSE IF a.k = "fin" /\ b.k = "fin"
             THEN (a.n < b.n) \/ (a.n = b.n /\ a.f <= b.f)
        ELSE Sgn(a) <= Sgn(b)

\* a > b
NumGt(a0, b0) ==
    LET a == ToNumber(a0)
        b == ToNumber(b0)
    IN  IF a.k = "nan" \/ b.k = "nan" THEN FALSE ELSE ~NumLe(a, b)

\* Math.min / Math.max
MathMin(a, b) ==
    IF a.k = "nan" \/ b.k = "nan" THEN NaN ELSE IF NumLe(a, b) THEN a ELSE b

MathMax(a, b) ==
    IF a.k = "nan" \/ b.k = "nan" THEN NaN ELSE IF NumLe(a, b) THEN b ELSE a

\* a * rate, the rate given in percent (0.15 is 15)
NumMulRate(a0, pct) ==
    LET a == ToNumber(a0)
    IN  IF a.k = "nan" THEN NaN
        ELSE IF a.k = "fin"
             THEN LET q == a.n * pct
                  IN  Norm(q \div 100, (q % 100) * (Frac \div 100) + ((a.f * pct) \div 100))
        ELSE IF pct = 0 THEN NaN
        ELSE a

\* (a / b) * 100.  A finite quotient is kept exact as the pair it is the
\* quotient of; 0 / b is 0 for finite b > 0.
NumDivTimes100(a0, b0) ==
    LET a == ToNumber(a0)
        b == ToNumber(b0)
    IN  IF a.k = "nan" \/ b.k = "nan" THEN NaN
        ELSE IF a.k # "fin" /\ b.k # "fin" THEN NaN
        ELSE IF b.k # "fin" THEN Zero
        ELSE IF a.k # "fin" THEN a
        ELSE IF b = Zero THEN (IF a = Zero THEN NaN ELSE Infinity)
        ELSE IF a = Zero THEN Zero
        ELSE [k |-> "quot100", num |-> a, den |-> b]

\* ------------------------------------------------------------ tax brackets
TAX_BRACKETS ==
    << [limit |-> Fin(800000, 0),   rate |-> 0],
       [limit |-> Fin(3000000, 0),  rate |-> 15],
       [limit |-> Fin(12000000, 0), rate |-> 18],
       [limit |-> Fin(25000000, 0), rate |-> 21],
       [limit |-> Fin(50000000, 0), rate |-> 23],
       [limit |-> Infinity,         rate |-> 25] >>

\* calculateTaxLoop with "tax +=" left out for the brackets passed
RECURSIVE calculateTaxLoop_NoAccumulate(_, _, _, _)
calculateTaxLoop_NoAccumulate(income, i, tax, previousLimit) ==
    IF i > Len(TAX_BRACKETS) THEN tax
    ELSE LET bracket == TAX_BRACKETS[i]
         IN  IF NumLe(income, bracket.limit)
             THEN NumAdd(tax, NumMulRate(NumSub(income, previousLimit), bracket.rate))
             ELSE calculateTaxLoop_NoAccumulate(income, i + 1, tax, bracket.limit)

\* the loop of calculateTax from bracket i on, with its two locals
RECURSIVE calculateTaxLoop(_, _, _, _)
calculateTaxLoop(income, i, tax, previousLimit) ==
    IF i > Len(TAX_BRACKETS) THEN tax
    ELSE LET bracket == TAX_BRACKETS[i]
         IN  IF NumLe(income, bracket.limit)
             THEN NumAdd(tax, NumMulRate(NumSub(income, previousLimit), bracket.rate))
             ELSE calculateTaxLoop(income, i + 1,
                      NumAdd(tax, NumMulRate(NumSub(bracket.limit, previousLimit), bracket.rate)),
                      bracket.limit)

calculateTax(income) == calculateTaxLoop(income, 1, Zero, Zero)

\* breakdownEntry with the tax taken on what remains instead of on taxable
breakdownEntry_TaxOnRemaining(bracket, remaining, previousLimit) ==
    LET bracketCap == IF bracket.limit = Infinity THEN remaining
                      ELSE MathMax(MathMin(NumSub(bracket.limit, previousLimit), remaining), Zero)
        taxable == MathMax(MathMin(remaining, bracketCap), Zero)
    IN  [limit |-> bracket.limit, rate |-> bracket.rate,
         taxable |-> taxable, tax |-> NumMulRate(remaining, bracket.rate)]

\* one entry of the breakdown: the bracket with its taxable amount and tax
breakdownEntry(bracket, remaining, previousLimit) ==
    LET bracketCap == IF bracket.limit = Infinity THEN remaining
                      ELSE MathMax(MathMin(NumSub(bracket.limit, previousLimit), remaining), Zero)
        taxable == MathMax(MathMin(remaining, bracketCap), Zero)
    IN  [limit |-> bracket.limit, rate |-> bracket.rate,
         taxable |-> taxable, tax |-> NumMulRate(taxable, bracket.rate)]

\* breakdownMap with "remaining -= taxable" left out
RECURSIVE breakdownMap_NoDecrement(_, _, _)
breakdownMap_NoDecrement(i, remaining, previousLimit) ==
    IF i > Len(TAX_BRACKETS) THEN << >>
    ELSE LET e == breakdownEntry(TAX_BRACKETS[i], remaining, previousLimit)
         IN  <<e>> \o breakdownMap_NoDecrement(i + 1, remaining, TAX_BRACKETS[i].limit)

\* TAX_BRACKETS.map(...) from bracket i on, with the two captured locals
RECURSIVE breakdownMap(_, _, _)
breakdownMap(i, remaining, previousLimit) ==
    IF i > Len(TAX_BRACKETS) THEN << >>
    ELSE LET e == breakdownEntry(TAX_BRACKETS[i], remaining, previousLimit)
         IN  <<e>> \o breakdownMap(i + 1, NumSub(remaining, e.taxable), TAX_BRACKETS[i].limit)

taxBreakdownOf(income) == breakdownMap(1, income, Zero)

\* effectiveRateOf without the guard on a positive income
effectiveRateOf_NoGuard(income, tax) == NumDivTimes100(tax, income)

effectiveRateOf(income, tax) ==
    IF NumGt(income, Zero) THEN NumDivTimes100(tax, income) ELSE Zero

\* sum of a field of the breakdown entries
RECURSIVE SumTaxable(_)
SumTaxable(bd) == IF bd = << >> THEN Zero ELSE NumAdd(Head(bd).taxable, SumTaxable(Tail(bd)))

\* -------------------------------------------------------- alert classifier
CRITICAL_DEBIT_KEYWORDS == <<"debit", "dr">>

DEBIT_KEYWORDS ==
    <<"debited", "withdrawal", "withdraw", "transferred", "transfer from your",
      "payment to", "paid to", "sent to", "deducted", "charged", "purchase",
      "atm withdrawal", "pos purchase", "bill payment">>

CREDIT_KEYWORDS ==
    <<"credited", "credit", "received", "deposit", "transfer from",
      "payment from", "salary", "refund", "reversal">>

\* the part of each receiver pattern that precedes the interpolated name
ReceiverPrefixes ==
    << WB \o Lit("to") \o SpacePlus,
       WB \o Lit("credited") \o SpacePlus \o Lit("to") \o SpacePlus,
       WB \o Lit("beneficiary") \o ColonSpacePlus,
       WB \o Lit("receiver") \o ColonSpacePlus,
       WB \o Lit("recipient") \o ColonSpacePlus,
       WB \o Lit("payment") \o SpacePlus \o Lit("to") \o SpacePlus >>

\* the part of each sender pattern that precedes the interpolated name
SenderPrefixes ==
    << WB \o Lit("from") \o SpacePlus,
       WB \o Lit("sender") \o ColonSpacePlus,
       WB \o Lit("by") \o SpacePlus,
       WB \o Lit("transfer") \o SpacePlus \o Lit("from") \o SpacePlus >>

\* new RegExp(`...${name}\\b`, 'i'): the name is interpolated as pattern
\* source, unescaped
nameRegExp(name) == compileSource(name, 1, 0, "quant", << >>)

\* [threw, value]: threw when constructing a pattern raises SyntaxError
namePatternsSome(prefixes, text, profileName) ==
    IF profileName = "" THEN [threw |-> FALSE, value |-> FALSE]
    ELSE LET name == toLowerCase(trim(profileName))
             re == nameRegExp(name)
         IN  IF re.st # "ok" THEN [threw |-> TRUE, value |-> FALSE]
             ELSE [threw |-> FALSE,
                   value |-> \E i \in 1..Len(prefixes) :
                                 RegExpTest(prefixes[i] \o re.toks \o WB, text)]

isUserReceiver(text, profileName) == namePatternsSome(ReceiverPrefixes, text, profileName)

isUserSender(text, profileName) == namePatternsSome(SenderPrefixes, text, profileName)

\* a critical term as a whole word
criticalDebit(text) ==
    \E i \in 1..Len(CRITICAL_DEBIT_KEYWORDS) :
        RegExpTest(WB \o Lit(CRITICAL_DEBIT_KEYWORDS[i]) \o WB, text)

\* a debit keyword as a substring of the lower-cased text
debitKeyword(text) ==
    LET lower == toLowerCase(text)
    IN  \E i \in 1..Len(DEBIT_KEYWORDS) : includes(lower, DEBIT_KEYWORDS[i])

isDebitTransaction(text) == criticalDebit(text) \/ debitKeyword(text)

isCreditTransaction(text) ==
    LET lower == toLowerCase(text)
    IN  \E i \in 1..Len(CREDIT_KEYWORDS) : includes(lower, CREDIT_KEYWORDS[i])

\* -------------------------------------------------------- amount extraction
AmountChars == Digits \cup {",", "."}

\* the alternatives that precede the capture group, per pattern
AmountPrefixes ==
    << << Lit("NGN") \o <<Tok("ws", "", "*")>>,
          Lit("₦") \o <<Tok("ws", "", "*")>>,
          Lit("N") \o <<Tok("ws", "", "*")>> >>,
       << Lit("credited") \o SpacePlus \o Lit("with") \o SpacePlus >>,
       << Lit("received") \o SpacePlus >> >>

\* the longest run of amount characters that starts after position p
amountRun(text, p) ==
    LET stops == {j \in (p + 1)..Len(text) : Char(text, j) \notin AmountChars}
        end == IF stops = {} THEN Len(text)
               ELSE (CHOOSE j \in stops : \A x \in stops : j <= x) - 1
    IN  SubSeq(text, p + 1, end)

\* positions after which the capture group can start when one of the
\* alternatives is matched from position i
captureStarts(alts, text, i) ==
    UNION { {e \in RunTokens(alts[a], 1, text, {i}) :
                e < Len(text) /\ Char(text, e + 1) \in AmountChars} : a \in 1..Len(alts) }

\* text.match(pattern): [found, group], the group of the leftmost match
matchAmount(alts, text) ==
    LET starts == {i \in 0..Len(text) : captureStarts(alts, text, i) # {}}
    IN  IF starts = {} THEN [found |-> FALSE, group |-> ""]
        ELSE LET i == CHOOSE x \in starts : \A y \in starts : x <= y
                 a == CHOOSE x \in 1..Len(alts) :
                          /\ captureStarts(<<alts[x]>>, text, i) # {}
                          /\ \A y \in 1..(x - 1) : captureStarts(<<alts[y]>>, text, i) = {}
                 es == captureStarts(<<alts[a]>>, text, i)
                 e == CHOOSE x \in es : \A y \in es : y <= x
             IN  [found |-> TRUE, group |-> amountRun(text, e)]

\* str.replace(/,/g, '')
RECURSIVE removeCommas(_, _, _)
removeCommas(str, lo, hi) ==
    IF lo > hi THEN ""
    ELSE IF lo = hi THEN (IF Char(str, lo) = "," THEN "" ELSE Char(str, lo))
    ELSE LET mid == (lo + hi) \div 2
         IN  removeCommas(str, lo, mid) \o removeCommas(str, mid + 1, hi)

\* the longest run of digits that starts after position p
digitRun(str, p) ==
    LET stops == {j \in (p + 1)..Len(str) : Char(str, j) \notin Digits}
        end == IF stops = {} THEN Len(str)
               ELSE (CHOOSE j \in stops : \A x \in stops : j <= x) - 1
    IN  SubSeq(str, p + 1, end)

DigitValue(c) == CHOOSE d \in 0..9 : Char("0123456789", d + 1) = c

\* a digit string without its leading zeros
stripZeros(ds) ==
    LET sig == {j \in 1..Len(ds) : Char(ds, j) # "0"}
    IN  IF sig = {} THEN ""
        ELSE SubSeq(ds, CHOOSE j \in sig : \A x \in sig : j <= x, Len(ds))

RECURSIVE digitsValue(_, _, _)
digitsValue(ds, i, acc) ==
    IF i > Len(ds) THEN acc ELSE digitsValue(ds, i + 1, acc * 10 + DigitValue(Char(ds, i)))

\* widths of the integer part: exact up to ExactDigits digits; a double
\* overflows to Infinity from 1.797...e308 on
ExactDigits == 8
OverflowDigits == 309

\* a finite value wider than the model's exact integers (no input has one)
TooWide == [k |-> "toowide", n |-> 0, f |-> 0]

\* parseFloat of a string over digits and "." : the longest prefix that is a
\* decimal literal; fraction digits beyond the fourth are dropped
parseFloat(str) ==
    LET int == digitRun(str, 0)
        hasDot == Len(int) < Len(str) /\ Char(str, Len(int) + 1) = "."
        frac == IF hasDot THEN digitRun(str, Len(int) + 1) ELSE ""
        sig == stripZeros(int)
        f4 == SubSeq(frac \o "0000", 1, 4)
    IN  IF int = "" /\ frac = "" THEN NaN
        ELSE IF Len(sig) > OverflowDigits
                \/ (Len(sig) = OverflowDigits /\ DigitValue(Char(sig, 1)) >= 2) THEN Infinity
        ELSE IF Len(sig) > ExactDigits THEN TooWide
        ELSE Fin(digitsValue(sig, 1, 0), digitsValue(f4, 1, 0))

\* x || 0 for a number x
OrZero(x) == IF x = NaN \/ x = Zero THEN Zero ELSE x

RECURSIVE extractAmountFrom(_, _)
extractAmountFrom(text, i) ==
    IF i > Len(AmountPrefixes) THEN Zero
    ELSE LET m == matchAmount(AmountPrefixes[i], text)
         IN  IF m.found THEN OrZero(parseFloat(removeCommas(m.group, 1, Len(m.group))))
             ELSE extractAmountFrom(text, i + 1)

extractAmount(text) == extractAmountFrom(text, 1)

\* ---------------------------------------------------------- date extraction
\* the alternatives of the date pattern, "d" standing for \d
DateShapes == <<"dddd-dd-dd", "dd/dd/dddd", "dd-dd-dddd">>

\* the shape matches the text from position i on
matchShape(shape, text, i) ==
    /\ i + Len(shape) - 1 <= Len(text)
    /\ \A k \in 1..Len(shape) :
          IF Char(shape, k) = "d" THEN Char(text, i + k - 1) \in Digits
          ELSE Char(text, i + k - 1) = Char(shape, k)

\* text.match(datePattern): [found, group], the leftmost match, the first
\* alternative that matches there
matchDate(text) ==
    LET starts == {i \in 1..Len(text) : \E a \in 1..Len(DateShapes) : matchShape(DateShapes[a], text, i)}
    IN  IF starts = {} THEN [found |-> FALSE, group |-> ""]
        ELSE LET i == CHOOSE x \in starts : \A y \in starts : x <= y
                 a == CHOOSE x \in 1..Len(DateShapes) :
                          /\ matchShape(DateShapes[x], text, i)
                          /\ \A y \in 1..(x - 1) : ~matchShape(DateShapes[y], text, i)
             IN  [found |-> TRUE, group |-> SubSeq(text, i, i + Len(DateShapes[a]) - 1)]

\* str.replace(/\//g, '-')
RECURSIVE replaceSlashes(_, _)
replaceSlashes(str, i) ==
    IF i > Len(str) THEN ""
    ELSE (IF Char(str, i) = "/" THEN "-" ELSE Char(str, i)) \o replaceSlashes(str, i + 1)

\* extractDate; today is new Date().toISOString().split('T')[0]
extractDate(text, today) ==
    LET m == matchDate(text)
    IN  IF m.found THEN replaceSlashes(m.group, 1) ELSE today

\* ------------------------------------------------------------ add decision
MsgEmpty == "Please enter SMS text or use OCR."
MsgDebit == "Debit detected! Only credit income alerts are accepted."
MsgAmbiguous == "Unable to confirm this is a credit alert."
MsgAmount == "Could not extract a valid amount from the SMS."

\* what a call of isUserReceiver / isUserSender came to
Result(r) == IF r.threw THEN "threw" ELSE IF r.value THEN "true" ELSE "false"

Decision(kind, receiver, sender) == [kind |-> kind, receiver |-> receiver, sender |-> sender]

\* The branch handleAddTransaction takes, down to the call of acceptCredit:
\* kind is "EmptyInput", "DebitRejected", "AmbiguousAlert", "Accepted"
\* (acceptCredit is called) or "Threw" (an exception leaves the handler and
\* nothing is reported); receiver and sender are the results of the two
\* name checks, "n/a" for a check that is not reached.
decide(text, profileName) ==
    IF trim(text) = "" THEN Decision("EmptyInput", "n/a", "n/a")
    ELSE LET receiver == isUserReceiver(text, profileName)
         IN  IF receiver.threw THEN Decision("Threw", "threw", "n/a")
             ELSE IF receiver.value THEN Decision("Accepted", "true", "n/a")
             ELSE LET sender == isUserSender(text, profileName)
                  IN  IF sender.threw THEN Decision("Threw", "false", "threw")
                      ELSE IF sender.value \/ isDebitTransaction(text)
                           THEN Decision("DebitRejected", "false", Result(sender))
                      ELSE IF ~isCreditTransaction(text)
                           THEN Decision("AmbiguousAlert", "false", "false")
                      ELSE Decision("Accepted", "false", "false")

\* JSON.stringify of the list followed by JSON.parse: a number that is not
\* finite is written as null
jsonNumber(x) == IF x.k \in {"fin", "null"} THEN x ELSE Null

jsonRoundTrip(list) == [i \in 1..Len(list) |-> [list[i] EXCEPT !.amount = jsonNumber(@)]]

\* transactions.reduce((sum, t) => sum + t.amount, 0)
RECURSIVE sumAmounts(_, _, _)
sumAmounts(list, i, sum) ==
    IF i > Len(list) THEN sum ELSE sumAmounts(list, i + 1, NumAdd(sum, list[i].amount))

\* filterOut with the test inverted: keeps the records it should remove
RECURSIVE filterOut_Inverted(_, _)
filterOut_Inverted(list, id) ==
    IF list = << >> THEN << >>
    ELSE (IF Head(list).id = id THEN <<Head(list)>> ELSE << >>) \o filterOut_Inverted(Tail(list), id)

\* transactions.filter((t) => t.id !== id)
RECURSIVE filterOut(_, _)
filterOut(list, id) ==
    IF list = << >> THEN << >>
    ELSE (IF Head(list).id # id THEN <<Head(list)>> ELSE << >>) \o filterOut(Tail(list), id)

\* -------------------------------------------------------------------- inputs
Nines10 == "9999999999"
Nines50 == Nines10 \o Nines10 \o Nines10 \o Nines10 \o Nines10
Nines310 == Nines50 \o Nines50 \o Nines50 \o Nines50 \o Nines50 \o Nines50 \o Nines10

\* alert texts a user can paste
Texts ==
    { "   ",
      "Debit alert: N2,000.50 debited from sender. Payment to JOE",
      "Debit: N50 sent to (joe",
      "Acct DR N300 salary",
      "Received from joe",
      "ATM withdrawal N300 refund",
      "hello N100",
      "Salary N800,000.50",
      "Deposit NGN12,000,000",
      "refund pending",
      "received N0.00",
      "Reversal N" \o Nines310 }

\* names a user can type into the profile dialog
Names == {"Joe ", "j.e", "(joe"}

SmsValues == Texts \cup {""}
UserNameValues == {trim(n) : n \in Names} \cup {""}

\* the functions of the text evaluated once per input (@@ turns the
\* function into an explicit table)
decideMemo == [in \in SmsValues \X UserNameValues |-> decide(in[1], in[2])] @@ << >>
extractAmountMemo == [t \in SmsValues |-> extractAmount(t)] @@ << >>

\* parseSMS with id the result of crypto.randomUUID; the date, description
\* and bank fields do not enter the state
parseSMS(text, id) == [id |-> id, amount |-> extractAmountMemo[text], rawSMS |-> text]

\* the amounts a ledger record can carry: what extractAmount returns on the
\* texts, and what storage gives back for each of them
Amounts ==
    UNION {{a, jsonNumber(a)} : a \in {extractAmount(t) : t \in SmsValues}}

\* the totals of ledgers of at most n records
RECURSIVE LedgerTotals(_)
LedgerTotals(n) ==
    IF n = 0 THEN {Zero}
    ELSE UNION {shorter \cup {NumAdd(total, a) : total \in shorter, a \in Amounts} :
                    shorter \in {LedgerTotals(n - 1)}}

\* annualTax, netIncome, effectiveRate and taxBreakdown for every total
summaryMemo ==
    [income \in LedgerTotals(MaxIds) |->
        [annualTax |-> calculateTax(income),
         netIncome |-> NumSub(income, calculateTax(income)),
         effectiveRate |-> effectiveRateOf(income, calculateTax(income)),
         taxBreakdown |-> taxBreakdownOf(income)]] @@ << >>

\* --------------------------------------------------------------------- state
VARIABLES
    smsText,                  \* the alert text in the input box
    userName,                 \* the saved profile name, "" when none
    transactions,             \* the ledger, newest first
    storedTransactions,       \* storage item 'income-transactions'
    storedUserName,           \* storage item 'user-name', "" when absent
    loadTransactionsPending,  \* the mount-time loadTransactions has not finished
    loadUserNamePending,      \* the mount-time loadUserName has not finished
    nextId,                   \* the next value crypto.randomUUID returns
    lastAdd,                  \* outcome of the latest add attempt on the current inputs
    loadTransactionsValue,    \* what storage.get has answered to the load in flight
    acceptedIds,              \* ids of the transactions accepted and not deleted since
    totalIncome, annualTax, netIncome, effectiveRate, taxBreakdown,
    incomeA, incomeB, taxA, taxB, breakdownA, taxPc,  \* tax-only inputs and results
    extractText, extractToday, dateOut, amountOut, extractPc,  \* parseSMS alone: inputs and fields
    isProcessingImage,        \* the OCR-in-progress flag
    selectedImage,            \* name of the file whose preview is shown, "" when none
    uploadPc,                 \* where each running handleImageUpload waits
    uploadLast                \* outcome of the latest upload that ended

summaryVars == <<totalIncome, annualTax, netIncome, effectiveRate, taxBreakdown>>
ledgerVars == <<smsText, userName, transactions, storedTransactions, storedUserName,
                loadTransactionsPending, loadUserNamePending, nextId, lastAdd, summaryVars,
                loadTransactionsValue, acceptedIds>>
taxVars == <<incomeA, incomeB, taxA, taxB, breakdownA, taxPc>>
extractVars == <<extractText, extractToday, dateOut, amountOut, extractPc>>
uploadVars == <<isProcessingImage, selectedImage, uploadPc, uploadLast>>
vars == <<ledgerVars, taxVars, extractVars, uploadVars>>

Absent == [present |-> FALSE, value |-> << >>]

\* loadTransactionsValue while storage.get has not answered
Unread == [answered |-> FALSE, present |-> FALSE, value |-> << >>]
Answer(item) == [answered |-> TRUE, present |-> item.present, value |-> item.value]
Stored(list) == [present |-> TRUE, value |-> jsonRoundTrip(list)]

\* uploadLast: how the latest upload ended (kind) and the message it flashed
NoUpload == [kind |-> "none", message |-> ""]
Ended(kind, message) == [kind |-> kind, message |-> message]

\* lastAdd: what the add attempt did (kind), the message it passed to
\* flashError (reason), the text it ran on and the results of its name checks
NoAdd == [kind |-> "none", reason |-> "", text |-> "", receiver |-> "n/a", sender |-> "n/a"]
Outcome(kind, reason, text, d) ==
    [kind |-> kind, reason |-> reason, text |-> text, receiver |-> d.receiver, sender |-> d.sender]

\* Render with the tax memo never recomputed
Render_StaleTax(list) ==
    LET income == sumAmounts(list, 1, Zero)
    IN  /\ totalIncome' = income
        /\ annualTax' = annualTax
        /\ netIncome' = NumSub(income, annualTax)
        /\ effectiveRate' = effectiveRateOf(income, annualTax)
        /\ taxBreakdown' = taxBreakdownOf(income)

\* the memoized summary values as the render after a state change computes them
Render(list) ==
    LET income == sumAmounts(list, 1, Zero)
        memo == summaryMemo[income]
    IN  /\ totalIncome' = income
        /\ annualTax' = memo.annualTax
        /\ netIncome' = memo.netIncome
        /\ effectiveRate' = memo.effectiveRate
        /\ taxBreakdown' = memo.taxBreakdown

\* the state of the component when it is constructed
Mounted ==
    /\ smsText = ""
    /\ userName = ""
    /\ transactions = << >>
    /\ loadTransactionsPending = TRUE
    /\ loadUserNamePending = TRUE
    /\ loadTransactionsValue = Unread
    /\ lastAdd = NoAdd
    /\ isProcessingImage = FALSE
    /\ selectedImage = ""
    /\ uploadPc = [u \in 1..MaxUploads |-> "idle"]
    /\ uploadLast = NoUpload
    /\ totalIncome = Zero
    /\ annualTax = calculateTax(Zero)
    /\ netIncome = NumSub(Zero, calculateTax(Zero))
    /\ effectiveRate = effectiveRateOf(Zero, calculateTax(Zero))
    /\ taxBreakdown = taxBreakdownOf(Zero)

TaxIdle ==
    /\ incomeA = Zero
    /\ incomeB = Zero
    /\ taxA = Null
    /\ taxB = Null
    /\ breakdownA = << >>
    /\ taxPc = "off"

ExtractIdle ==
    /\ extractText = ""
    /\ extractToday = ""
    /\ dateOut = ""
    /\ amountOut = Null
    /\ extractPc = "off"

\* first start: nothing is stored yet
Init ==
    /\ Mounted
    /\ storedTransactions = Absent
    /\ storedUserName = ""
    /\ nextId = 1
    /\ acceptedIds = {}
    /\ TaxIdle
    /\ ExtractIdle

\* ------------------------------------------------------------------- actions
\* onChange of the text area
SetSmsText(t) ==
    /\ smsText' = t
    /\ lastAdd' = NoAdd
    /\ UNCHANGED <<userName, transactions, storedTransactions, storedUserName,
                   loadTransactionsPending, loadUserNamePending, nextId, summaryVars,
                   loadTransactionsValue, acceptedIds, taxVars, extractVars, uploadVars>>

\* loadTransactions completes: storage.get answers and the function resumes
\* before any other handler runs
LoadTransactions ==
    /\ loadTransactionsPending
    /\ ~loadTransactionsValue.answered
    /\ loadTransactionsPending' = FALSE
    /\ IF storedTransactions.present
       THEN transactions' = storedTransactions.value /\ Render(storedTransactions.value)
       ELSE UNCHANGED <<transactions, summaryVars>>
    /\ UNCHANGED <<smsText, userName, storedTransactions, storedUserName,
                   loadUserNamePending, nextId, lastAdd, loadTransactionsValue, acceptedIds,
                   taxVars, extractVars, uploadVars>>

\* storage.get('income-transactions') answers the load in flight; the
\* function resumes later
StorageGetTransactions ==
    /\ loadTransactionsPending
    /\ ~loadTransactionsValue.answered
    /\ loadTransactionsValue' = Answer(storedTransactions)
    /\ UNCHANGED <<smsText, userName, transactions, storedTransactions, storedUserName,
                   loadTransactionsPending, loadUserNamePending, nextId, lastAdd, summaryVars,
                   acceptedIds, taxVars, extractVars, uploadVars>>

\* loadTransactions resumes after its await with the answer it was given
ResumeLoadTransactions ==
    /\ loadTransactionsPending
    /\ loadTransactionsValue.answered
    /\ loadTransactionsPending' = FALSE
    /\ loadTransactionsValue' = Unread
    /\ IF loadTransactionsValue.present
       THEN transactions' = loadTransactionsValue.value /\ Render(loadTransactionsValue.value)
       ELSE UNCHANGED <<transactions, summaryVars>>
    /\ UNCHANGED <<smsText, userName, storedTransactions, storedUserName,
                   loadUserNamePending, nextId, lastAdd, acceptedIds, taxVars, extractVars, uploadVars>>

\* loadUserName completes
LoadUserName ==
    /\ loadUserNamePending
    /\ loadUserNamePending' = FALSE
    /\ IF storedUserName # ""
       THEN userName' = storedUserName /\ lastAdd' = NoAdd
       ELSE UNCHANGED <<userName, lastAdd>>
    /\ UNCHANGED <<smsText, transactions, storedTransactions, storedUserName,
                   loadTransactionsPending, nextId, summaryVars,
                   loadTransactionsValue, acceptedIds, taxVars, extractVars, uploadVars>>

\* saveUserName with tempName typed into the dialog; the button is disabled
\* while tempName.trim() is empty
SaveUserName(tempName) ==
    /\ trim(tempName) # ""
    /\ storedUserName' = trim(tempName)
    /\ userName' = trim(tempName)
    /\ lastAdd' = NoAdd
    /\ UNCHANGED <<smsText, transactions, storedTransactions,
                   loadTransactionsPending, loadUserNamePending, nextId, summaryVars,
                   loadTransactionsValue, acceptedIds, taxVars, extractVars, uploadVars>>

\* acceptCredit, called by handleAddTransaction with decision d
AcceptCredit(d) ==
    LET newTransaction == parseSMS(smsText, nextId)
        next == <<newTransaction>> \o transactions
    IN  IF NumLe(newTransaction.amount, Zero)
        THEN /\ lastAdd' = Outcome("ExtractionFailed", MsgAmount, smsText, d)
             /\ UNCHANGED <<smsText, transactions, storedTransactions, nextId, summaryVars, acceptedIds>>
        ELSE /\ nextId <= MaxIds
             /\ transactions' = next
             /\ Render(next)
             /\ storedTransactions' = Stored(next)
             /\ smsText' = ""
             /\ nextId' = nextId + 1
             /\ acceptedIds' = acceptedIds \cup {nextId}
             /\ lastAdd' = Outcome("Added", "", smsText, d)

\* click on "add transaction"
HandleAddTransaction ==
    LET decision == decideMemo[<<smsText, userName>>]
    IN  /\ CASE decision.kind = "EmptyInput" ->
                   /\ lastAdd' = Outcome("EmptyInput", MsgEmpty, smsText, decision)
                   /\ UNCHANGED <<smsText, transactions, storedTransactions, nextId, summaryVars, acceptedIds>>
             [] decision.kind = "DebitRejected" ->
                   /\ lastAdd' = Outcome("DebitRejected", MsgDebit, smsText, decision)
                   /\ UNCHANGED <<smsText, transactions, storedTransactions, nextId, summaryVars, acceptedIds>>
             [] decision.kind = "AmbiguousAlert" ->
                   /\ lastAdd' = Outcome("AmbiguousAlert", MsgAmbiguous, smsText, decision)
                   /\ UNCHANGED <<smsText, transactions, storedTransactions, nextId, summaryVars, acceptedIds>>
             [] decision.kind = "Threw" ->
                   /\ lastAdd' = Outcome("Threw", "", smsText, decision)
                   /\ UNCHANGED <<smsText, transactions, storedTransactions, nextId, summaryVars, acceptedIds>>
             [] decision.kind = "Accepted" -> AcceptCredit(decision)
        /\ UNCHANGED <<userName, storedUserName, loadTransactionsPending, loadUserNamePending,
                       loadTransactionsValue, taxVars, extractVars, uploadVars>>

\* click on the delete button of a transaction
HandleDelete(id) ==
    LET next == filterOut(transactions, id)
    IN  /\ transactions' = next
        /\ Render(next)
        /\ storedTransactions' = Stored(next)
        /\ acceptedIds' = acceptedIds \ {id}
        /\ UNCHANGED <<smsText, userName, storedUserName, loadTransactionsPending,
                       loadUserNamePending, nextId, lastAdd, loadTransactionsValue, taxVars, extractVars, uploadVars>>

\* the page is loaded again: the component is constructed anew over the
\* same storage
Remount ==
    /\ smsText' = ""
    /\ userName' = ""
    /\ transactions' = << >>
    /\ loadTransactionsPending' = TRUE
    /\ loadUserNamePending' = TRUE
    /\ lastAdd' = NoAdd
    /\ loadTransactionsValue' = Unread
    /\ isProcessingImage' = FALSE
    /\ selectedImage' = ""
    /\ uploadPc' = [u \in 1..MaxUploads |-> "idle"]
    /\ uploadLast' = NoUpload
    /\ Render(<< >>)
    /\ UNCHANGED <<storedTransactions, storedUserName, nextId, acceptedIds, taxVars, extractVars>>

Next ==
    \/ \E t \in Texts : SetSmsText(t)
    \/ LoadTransactions
    \/ LoadUserName
    \/ \E n \in Names : SaveUserName(n)
    \/ HandleAddTransaction
    \/ \E id \in 1..MaxIds : HandleDelete(id)
    \/ Remount

Spec == Init /\ [][Next]_vars

\* ------------------------------------------------- properties of the ledger
\* The profile name searched for as literal text: every character of the
\* name stands for itself (spec.md 4.1, "escape the profile name").
literalSome(prefixes, text, profileName) ==
    /\ profileName # ""
    /\ \E i \in 1..Len(prefixes) :
           RegExpTest(prefixes[i] \o Lit(toLowerCase(trim(profileName))) \o WB, text)

literalReceiver == [in \in SmsValues \X UserNameValues |->
                        literalSome(ReceiverPrefixes, in[1], in[2])] @@ << >>
literalSender == [in \in SmsValues \X UserNameValues |->
                      literalSome(SenderPrefixes, in[1], in[2])] @@ << >>

Bool(b) == IF b THEN "true" ELSE "false"

\* the decision the ordered rule list of spec.md 4.1 gives when the receiver
\* rule does not apply
ruleDecision == [in \in SmsValues \X UserNameValues |->
    IF trim(in[1]) = "" THEN "EmptyInput"
    ELSE IF criticalDebit(in[1]) THEN "DebitRejected"
    ELSE IF literalSender[in] THEN "DebitRejected"
    ELSE IF debitKeyword(in[1]) THEN "DebitRejected"
    ELSE IF ~isCreditTransaction(in[1]) THEN "AmbiguousAlert"
    ELSE "Accepted"] @@ << >>

Attempted == lastAdd.kind # "none"
AttemptInput == <<lastAdd.text, userName>>
\* the classification an add attempt came to
Classified == IF lastAdd.kind \in {"Added", "ExtractionFailed"} THEN "Accepted" ELSE lastAdd.kind

Rejections == {"EmptyInput", "DebitRejected", "AmbiguousAlert", "ExtractionFailed"}

\* C1: when a profile name is set and the text matches a receiver pattern
\* for that name, the add attempt accepts the alert, whatever debit terms
\* the text contains.
C1_ReceiverOverride ==
    (Attempted /\ userName # "" /\ literalReceiver[AttemptInput]) => Classified = "Accepted"

\* C2: when the receiver pattern does not match, the add attempt decides by
\* the first matching rule: empty, critical debit term, sender pattern,
\* debit keyword, no credit keyword, accepted.
C2_RuleOrder ==
    (Attempted /\ ~literalReceiver[AttemptInput]) => Classified = ruleDecision[AttemptInput]

\* C3: every transaction in the ledger has amount > 0.
C3_PositiveAmounts ==
    \A i \in 1..Len(transactions) : NumGt(transactions[i].amount, Zero)

\* C4: every add attempt that adds nothing ends in one of the four
\* rejections with a non-empty reason, never in a thrown fault, and leaves
\* the ledger and the persisted list unchanged.
C4_RejectionsCarryReason ==
    [][(lastAdd' # lastAdd /\ lastAdd'.kind \notin {"none", "Added"}) =>
          /\ lastAdd'.kind \in Rejections
          /\ lastAdd'.reason # ""
          /\ transactions' = transactions
          /\ storedTransactions' = storedTransactions]_vars

\* C8: the results of the receiver and sender checks of an add attempt are
\* those of a literal search for the profile name.
C8_NameIsLiteral ==
    Attempted =>
        /\ lastAdd.receiver # "n/a" => lastAdd.receiver = Bool(literalReceiver[AttemptInput])
        /\ lastAdd.sender # "n/a" => lastAdd.sender = Bool(literalSender[AttemptInput])

\* the amounts of a list added up from its last record to its first
RECURSIVE LedgerSum(_)
LedgerSum(list) ==
    IF list = << >> THEN Zero
    ELSE NumAdd(LedgerSum(SubSeq(list, 1, Len(list) - 1)), list[Len(list)].amount)

\* C7: with an empty ledger the total tax and the effective rate are 0 and
\* every breakdown entry has taxable amount 0 and tax 0.
C7_EmptyLedgerIsZero ==
    transactions = << >> =>
        /\ totalIncome = Zero
        /\ annualTax = Zero
        /\ effectiveRate = Zero
        /\ \A i \in 1..Len(taxBreakdown) :
               taxBreakdown[i].taxable = Zero /\ taxBreakdown[i].tax = Zero

\* the ledger emptied again by a delete
C7_Witness ==
    /\ transactions = << >>
    /\ nextId > 1
    /\ storedTransactions = [present |-> TRUE, value |-> << >>]
    /\ ~loadTransactionsPending
    /\ Len(taxBreakdown) = 6
    /\ effectiveRate = Zero

\* C9: the summary is a function of the current ledger: total income is the
\* sum of the amounts in the list, total tax is calculateTax of it, net
\* income their difference, the effective rate tax / income * 100 for a
\* positive income and 0 otherwise.
C9_SummaryOfLedger ==
    /\ totalIncome = LedgerSum(transactions)
    /\ annualTax = calculateTax(totalIncome)
    /\ netIncome = NumSub(totalIncome, annualTax)
    /\ effectiveRate = IF NumGt(totalIncome, Zero)
                       THEN NumDivTimes100(annualTax, totalIncome) ELSE Zero

\* two records added, the newer one deleted: the summary is that of the one left
C9_Witness ==
    /\ Len(transactions) = 1
    /\ transactions[1].id = 1
    /\ nextId = 3
    /\ totalIncome = Fin(12000000, 0)
    /\ annualTax = Fin(1950000, 0)
    /\ netIncome = Fin(10050000, 0)
    /\ effectiveRate = [k |-> "quot100", num |-> Fin(1950000, 0), den |-> Fin(12000000, 0)]

Ids(list) == {list[i].id : i \in 1..Len(list)}

AsyncTexts == {"Salary N800,000.50", "Deposit NGN12,000,000"}

AsyncNext ==
    \/ \E t \in AsyncTexts : SetSmsText(t)
    \/ StorageGetTransactions
    \/ ResumeLoadTransactions
    \/ HandleAddTransaction
    \/ \E id \in 1..MaxIds : HandleDelete(id)
    \/ Remount

SpecAsync == Init /\ [][AsyncNext]_vars

\* the list kept under 'income-transactions' (none kept: the empty list)
PersistedList == IF storedTransactions.present THEN storedTransactions.value ELSE << >>

\* C14: once no operation is pending, the persisted list is the in-memory
\* list as JSON keeps it, and every transaction accepted and not deleted is
\* in both.
C14_PersistedEqualsMemory ==
    ~loadTransactionsPending =>
        /\ PersistedList = jsonRoundTrip(transactions)
        /\ acceptedIds \subseteq Ids(transactions)
        /\ acceptedIds \subseteq Ids(PersistedList)

\* ---------------------------------------------------------- tax-only state
FiniteLimits == {800000, 3000000, 12000000, 25000000, 50000000}

\* non-negative incomes: zero, small ones, and the neighbourhood of every limit
Incomes ==
    {Fin(0, 0), Fin(0, 100), Fin(1, 5000)}
    \cup {Fin(l + d, f) : l \in FiniteLimits, d \in (0 - ProbeSpread)..ProbeSpread, f \in {0, 5000}}

TaxInit ==
    /\ Mounted
    /\ storedTransactions = Absent
    /\ storedUserName = ""
    /\ nextId = 1
    /\ acceptedIds = {}
    /\ incomeA \in Incomes
    /\ incomeB \in Incomes
    /\ taxA = Null
    /\ taxB = Null
    /\ breakdownA = << >>
    /\ taxPc = "input"
    /\ ExtractIdle

\* calculateTax applied to both incomes
ComputeTax ==
    /\ taxPc = "input"
    /\ taxA' = calculateTax(incomeA)
    /\ taxB' = calculateTax(incomeB)
    /\ taxPc' = "taxed"
    /\ UNCHANGED <<incomeA, incomeB, breakdownA, ledgerVars, extractVars, uploadVars>>

\* the breakdown memo evaluated for the first income
ComputeBreakdown ==
    /\ taxPc = "taxed"
    /\ breakdownA' = taxBreakdownOf(incomeA)
    /\ taxPc' = "done"
    /\ UNCHANGED <<incomeA, incomeB, taxA, taxB, ledgerVars, extractVars, uploadVars>>

TaxNext == ComputeTax \/ ComputeBreakdown

SpecTax == TaxInit /\ [][TaxNext]_vars

\* C5: for every non-negative income the taxable amounts of the breakdown
\* add up to the income.
C5_TaxableSumsToIncome ==
    taxPc = "done" => SumTaxable(breakdownA) = incomeA

C5_Witness ==
    /\ taxPc = "done"
    /\ incomeA = Fin(12000001, 5000)
    /\ breakdownA[3].taxable = Fin(9000000, 0)
    /\ breakdownA[4].taxable = Fin(1, 5000)

\* C6: calculateTax is monotonically non-decreasing and never exceeds the
\* income.
C6_MonotoneAndBounded ==
    taxPc # "input" =>
        /\ NumLe(incomeA, incomeB) => NumLe(taxA, taxB)
        /\ NumLe(taxA, incomeA)
        /\ NumLe(taxB, incomeB)

C6_Witness ==
    /\ taxPc = "taxed"
    /\ incomeA = Fin(3000000, 0)
    /\ incomeB = Fin(3000001, 0)
    /\ taxA = Fin(330000, 0)
    /\ taxB = Fin(330000, 1800)

\* sum of the tax fields of the breakdown entries, in bracket order
RECURSIVE SumTax(_, _, _)
SumTax(bd, i, sum) == IF i > Len(bd) THEN sum ELSE SumTax(bd, i + 1, NumAdd(sum, bd[i].tax))

ExtractHeads == {"Alert: ", "GTBank "}
AmountParts ==
    {"NGN 12,345.50 credited", "credited with 5,000", "received 700",
     "Txn. credited with 500", "no numbers here", "received N0.00"}
DateParts == {"", " Date: 2024-03-05", " on 05/03/2024", " Date: 05-03-2024"}
ExtractTexts == {h \o a \o d : h \in ExtractHeads, a \in AmountParts, d \in DateParts}

\* values of new Date().toISOString().split('T')[0]
Todays == {"2026-11-04", "2024-02-29"}

ExtractInit ==
    /\ Mounted
    /\ storedTransactions = Absent
    /\ storedUserName = ""
    /\ nextId = 1
    /\ acceptedIds = {}
    /\ TaxIdle
    /\ extractText \in ExtractTexts
    /\ extractToday \in Todays
    /\ dateOut = ""
    /\ amountOut = Null
    /\ extractPc = "input"

\* the date and amount fields as parseSMS fills them
ParseFields ==
    /\ extractPc = "input"
    /\ dateOut' = extractDate(extractText, extractToday)
    /\ amountOut' = extractAmount(extractText)
    /\ extractPc' = "parsed"
    /\ UNCHANGED <<extractText, extractToday, ledgerVars, taxVars, uploadVars>>

ExtractNext == ParseFields

SpecExtract == ExtractInit /\ [][ExtractNext]_vars

\* YYYY-MM-DD with a month 01..12 and a day 01..31
IsIsoDate(str) ==
    /\ Len(str) = 10
    /\ matchShape("dddd-dd-dd", str, 1)
    /\ digitsValue(SubSeq(str, 6, 7), 1, 0) \in 1..12
    /\ digitsValue(SubSeq(str, 9, 10), 1, 0) \in 1..31

\* C11: the date parseSMS gives a transaction is a calendar date in the form
\* YYYY-MM-DD, whatever date format the text carries and when it carries none.
C11_DateIsIso ==
    extractPc = "parsed" => IsIsoDate(dateOut)

\* the patterns of extractAmount that match the text
MatchingPatterns(text) ==
    {i \in 1..Len(AmountPrefixes) : matchAmount(AmountPrefixes[i], text).found}

\* C13: the amount is the decimal value of the capture of the first pattern
\* that matches, commas removed, and it is 0 only if no pattern matches.
C13_FirstPatternWins ==
    extractPc = "parsed" =>
        LET matching == MatchingPatterns(extractText)
        IN  IF matching = {} THEN amountOut = Zero
            ELSE LET first == CHOOSE i \in matching : \A j \in matching : i <= j
                     group == matchAmount(AmountPrefixes[first], extractText).group
                 IN  /\ amountOut = parseFloat(removeCommas(group, 1, Len(group)))
                     /\ amountOut # Zero

\* ------------------------------------------------------------ image upload
\* event.target.files?.[0]: no file, two images and a file of another type
NoFile == [present |-> FALSE, type |-> "", name |-> ""]
Files ==
    {NoFile,
     [present |-> TRUE, type |-> "image/png", name |-> "alert.png"],
     [present |-> TRUE, type |-> "image/jpeg", name |-> "shot.jpg"],
     [present |-> TRUE, type |-> "application/pdf", name |-> "statement.pdf"]}

\* String.prototype.startsWith
startsWith(s, prefix) ==
    Len(s) >= Len(prefix) /\ SubSeq(s, 1, Len(prefix)) = prefix

\* values response.json() resolves to: a message with text blocks, a message
\* with a block of another type, an error body without content, and null
Block(type, str) == [type |-> type, text |-> str]
Body(isNull, hasContent, content) ==
    [isNull |-> isNull, hasContent |-> hasContent, content |-> content]
OcrBodies ==
    {Body(FALSE, TRUE, <<Block("text", "Credit alert: NGN5,000 received")>>),
     Body(FALSE, TRUE, <<Block("tool_use", ""), Block("text", "Acct credited"),
                         Block("text", "NGN 700")>>),
     Body(FALSE, FALSE, << >>),
     Body(TRUE, FALSE, << >>)}

\* messages of the errors the awaited promises reject with
ReadFailed == "Failed to read image file"
FetchFailed == "Failed to fetch"
JsonFailed == "Unexpected end of JSON input"
NullContent == "Cannot read properties of null (reading 'content')"

\* .filter(block => block.type === 'text').map(block => block.text).join('\n')
RECURSIVE joinText(_, _, _)
joinText(content, i, first) ==
    IF i > Len(content) THEN ""
    ELSE IF content[i].type # "text" THEN joinText(content, i + 1, first)
    ELSE (IF first THEN "" ELSE "\n") \o content[i].text \o joinText(content, i + 1, FALSE)

extractedText(data) ==
    joinText(IF data.hasContent THEN data.content ELSE << >>, 1, TRUE)

\* the finally block without its statement
finallyReset_Missing == UNCHANGED isProcessingImage

\* finally { setIsProcessingImage(false) }
finallyReset == isProcessingImage' = FALSE

\* catch (err) { flashError(...) } finally { ... }: upload u ends in failure
catchError(u, message) ==
    /\ uploadLast' = Ended("failed", "Failed to process image: " \o message)
    /\ finallyReset
    /\ uploadPc' = [uploadPc EXCEPT ![u] = "idle"]
    /\ UNCHANGED <<selectedImage, ledgerVars, taxVars, extractVars>>

\* onChange of the file input: handleImageUpload up to its first await.
\* A file that is no image ends the handler at once; an image starts the
\* handler in the free place u.
HandleImageUpload(file, u) ==
    IF ~file.present \/ ~startsWith(file.type, "image/")
    THEN /\ uploadLast' = Ended("rejected", "Please select a valid image file")
         /\ UNCHANGED <<isProcessingImage, selectedImage, uploadPc,
                        ledgerVars, taxVars, extractVars>>
    ELSE /\ uploadPc[u] = "idle"
         /\ \A v \in 1..(u - 1) : uploadPc[v] # "idle"
         /\ selectedImage' = file.name
         /\ isProcessingImage' = TRUE
         /\ uploadPc' = [uploadPc EXCEPT ![u] = "reading"]
         /\ UNCHANGED <<uploadLast, ledgerVars, taxVars, extractVars>>

\* reader.onload: convertImageToBase64 resolves and fetch is called
ReaderLoad(u) ==
    /\ uploadPc[u] = "reading"
    /\ uploadPc' = [uploadPc EXCEPT ![u] = "fetching"]
    /\ UNCHANGED <<isProcessingImage, selectedImage, uploadLast,
                   ledgerVars, taxVars, extractVars>>

\* reader.onerror: convertImageToBase64 rejects
ReaderError(u) ==
    /\ uploadPc[u] = "reading"
    /\ catchError(u, ReadFailed)

\* fetch resolves with a response and response.json() is called
FetchResolve(u) ==
    /\ uploadPc[u] = "fetching"
    /\ uploadPc' = [uploadPc EXCEPT ![u] = "decoding"]
    /\ UNCHANGED <<isProcessingImage, selectedImage, uploadLast,
                   ledgerVars, taxVars, extractVars>>

\* fetch rejects
FetchReject(u) ==
    /\ uploadPc[u] = "fetching"
    /\ catchError(u, FetchFailed)

\* response.json() resolves with data: the text blocks go to the text area,
\* or reading data.content throws when data is null
JsonResolve(u, data) ==
    /\ uploadPc[u] = "decoding"
    /\ IF data.isNull
       THEN catchError(u, NullContent)
       ELSE /\ smsText' = extractedText(data)
            /\ uploadLast' = Ended("extracted",
                                   "Text extracted from image. Review and add transaction.")
            /\ finallyReset
            /\ uploadPc' = [uploadPc EXCEPT ![u] = "idle"]
            /\ UNCHANGED <<selectedImage, userName, transactions, storedTransactions,
                           storedUserName, loadTransactionsPending, loadUserNamePending,
                           nextId, lastAdd, summaryVars, loadTransactionsValue,
                           acceptedIds, taxVars, extractVars>>

\* response.json() rejects: the body is no JSON
JsonReject(u) ==
    /\ uploadPc[u] = "decoding"
    /\ catchError(u, JsonFailed)

\* the promise upload u awaits settles and the handler runs to its end or to
\* its next await
UploadSettle(u) ==
    \/ ReaderLoad(u)
    \/ ReaderError(u)
    \/ FetchResolve(u)
    \/ FetchReject(u)
    \/ \E data \in OcrBodies : JsonResolve(u, data)
    \/ JsonReject(u)

UploadTexts == {"", "typed by hand"}

UploadNext ==
    \/ \E t \in UploadTexts : SetSmsText(t)
    \/ \E file \in Files, u \in 1..MaxUploads : HandleImageUpload(file, u)
    \/ \E u \in 1..MaxUploads : ReaderLoad(u)
    \/ \E u \in 1..MaxUploads : ReaderError(u)
    \/ \E u \in 1..MaxUploads : FetchResolve(u)
    \/ \E u \in 1..MaxUploads : FetchReject(u)
    \/ \E u \in 1..MaxUploads, data \in OcrBodies : JsonResolve(u, data)
    \/ \E u \in 1..MaxUploads : JsonReject(u)
    \/ Remount

\* Every promise the handler awaits is settled by the browser (the reader
\* fires onload or onerror, the request ends or fails, the body is read),
\* and the continuation is then run by the event loop.
UploadFairness == \A u \in 1..MaxUploads : WF_vars(UploadSettle(u))

SpecUpload == Init /\ [][UploadNext]_vars /\ UploadFairness

InFlight(u) == uploadPc[u] # "idle"

\* C15: every upload that has set isProcessingImage to true ends, whatever
\* the file read, the request and the decoding of the response do, and the
\* step that ends it sets isProcessingImage to false; an upload rejected as
\* not an image changes neither isProcessingImage nor the alert text.
C15_FlagIsReset ==
    /\ \A u \in 1..MaxUploads : InFlight(u) ~> ~InFlight(u)
    /\ isProcessingImage ~> ~isProcessingImage
    /\ [][\A u \in 1..MaxUploads :
              (InFlight(u) /\ ~InFlight(u)' /\ ~Remount) => isProcessingImage' = FALSE]_vars
    /\ [][(uploadLast' # uploadLast /\ uploadLast'.kind = "rejected")
              => UNCHANGED <<isProcessingImage, smsText, uploadPc>>]_vars

\* an image upload has failed after setting the flag and the flag is false
\* again, with no upload left running
C15_Witness ==
    /\ uploadLast.kind = "failed"
    /\ selectedImage # ""
    /\ ~isProcessingImage
    /\ \A u \in 1..MaxUploads : ~InFlight(u)

====
